---- MODULE Spec2Model ----
(***************************************************************************)
(* The Orchestrator of src/orchestrator/orchestrator.py (handle_task,       *)
(* decompose_task, route_task, classify_task), its composition in           *)
(* src/orchestrator/instance.py, and the Slack endpoint and message handler *)
(* of src/slack_interface/slack_events.py.                                  *)
(***************************************************************************)
EXTENDS Integers, Sequences, FiniteSets, TLC

\* ------------------------------------------------------------------------
\* Bounds
\* ------------------------------------------------------------------------
\* longest decomposition the oracle returns in the model
MaxSubTasks == 3
\* longest decomposition of the handle_task call made on the composed instance
MaxComposedSubTasks == 2
\* longest decomposition of a handle_task call that runs beside another call
MaxPairSubTasks == 2
\* most words in a message given to classify_task
MaxWords == 2

\* ------------------------------------------------------------------------
\* Values
\* ------------------------------------------------------------------------
\* Every Python value the engine handles is a record [kind, idx].  idx names
\* the dispatch that produced the value (0 when none did), so that values of
\* different dispatches are distinguishable.
Val(k, i) == [kind |-> k, idx |-> i]

\* Python None (also the initial prev_result)
None == Val("None", 0)
\* marker: the payload mapping has no 'input' key
NoKey == Val("nokey", 0)
\* an 'input' the decomposition pre-populated with a falsy value ('' , None, 0)
FalsyInput == Val("falsy", 0)
\* an 'input' the decomposition pre-populated with a truthy value
TruthyInput == Val("literal", 0)

\* the registry: type ids with a handler (self.agents)
agents == {"web_search", "llm_response"}
\* type ids a sub-task of a decomposition carries in the model: one with a
\* handler and "complex_report", which has none (a sub-task without a 'type'
\* key looks up None, which has no handler either)
TaskTypes == {"web_search", "complex_report"}

\* payloads: no 'payload' key, a value that is not a mapping, or a mapping
\* whose 'input' is absent, falsy or truthy
Payload(k, v) == [kind |-> k, input |-> v]
NoPayload == Payload("absent", NoKey)
NonMappingPayload == Payload("nonmapping", NoKey)
Payloads ==
    {NoPayload, NonMappingPayload} \cup
    {Payload("mapping", v) : v \in {NoKey, FalsyInput, TruthyInput}}

SubTasks == [type : TaskTypes, payload : Payloads]

\* what a handler does with a dispatched sub-task: raise, or return a
\* mapping without 'error', a mapping with 'error', None, or some other
\* non-mapping value that supports `in` and does not contain "error"
Outcomes == {"raise", "ok", "error", "None", "text"}

\* a lookup that finds an agent for every type
AnyAgent(t) == TRUE
\* the registry lookup self.agents.get(agent_type)
HasAgent(t) == t \in agents

\* isinstance(r, dict)
IsDict(r) == r.kind \in {"ok", "error", "no_agent", "failed"}
\* "error" in r, for a value that supports the test
HasError(r) == r.kind \in {"error", "no_agent", "failed"}
\* `"error" in r` raises TypeError (None is not iterable)
InRaises(r) == r.kind = "None"

\* the value agent.handle returns for outcome o of dispatch i
HandlerResult(o, i) == IF o = "None" THEN None ELSE Val(o, i)
\* {"error": f"No agent for type: {agent_type}"}
NoAgentError(i) == Val("no_agent", i)
\* {"error": f"Agent '{agent_type}' failed: ...", "sub_task": sub_task}
AgentFailedError(i) == Val("failed", i)

\* ------------------------------------------------------------------------
\* The registry as src/orchestrator/instance.py composes it (lines 12-51)
\* ------------------------------------------------------------------------
\* the type ids of the agents dict (lines 12-34)
InstanceTypes == {"web_search", "data_retrieval", "report_generation",
                  "analysis_dashboard", "llm_response"}
\* the entry whose 'instance' is None in the agents dict (lines 29-33)
LateBoundType == "llm_response"

\* Orchestrator.__init__ (lines 64-65): self.agents and
\* self.agent_descriptions as built from the agents dict; `writes` counts
\* the assignments to self.agents[...] made after construction
Constructed ==
    [pc |-> "constructed",
     handler |-> [t \in InstanceTypes |->
                     IF t = LateBoundType THEN "None" ELSE "agent"],
     description |-> [t \in InstanceTypes |-> t],
     writes |-> [t \in InstanceTypes |-> 0]]

\* a composition that leaves the slot as the constructor built it
LateBindSkipped(reg, g) == [reg EXCEPT !.pc = "composed"]
\* lines 41-51: the slot is given LLMResponseAgent(gemini_model) when the
\* oracle is available and a DummyLLMResponseAgent otherwise
LateBind(reg, g) ==
    [reg EXCEPT !.pc = "composed",
                !.handler[LateBoundType] = IF g THEN "agent" ELSE "dummy",
                !.writes[LateBoundType] = @ + 1]

\* the registry once instance.py has been imported
Composed(g) == LateBind(Constructed, g)

\* ------------------------------------------------------------------------
\* State
\* ------------------------------------------------------------------------
VARIABLES
    decomposition,  \* the list decompose_task returned, as returned
    sub_tasks,      \* the same list object, as the engine's writes leave it
    results,        \* results
    prev_result,    \* prev_result
    pc,             \* position in handle_task
    mode,           \* "none", "CONCURRENT" or "SEQUENTIAL"
    idx,            \* loop index of the sequential for (1-based)
    status,         \* per run_agent coroutine: "pending", "await", "done"
    cresult,        \* per run_agent coroutine: its return value
    finished,       \* order in which the run_agent coroutines returned
    calls,          \* the agent.handle invocations, in order, with arguments
    ret,            \* what handle_task returned or raised
    gemini_model,   \* self.gemini_model is set (an oracle is configured)
    route,          \* the route_task call in progress
    dec,            \* the decompose_task call in progress
    cls,            \* the classify_task call in progress
    registry,       \* self.agents and self.agent_descriptions, and how they were built
    slack,          \* the Slack request or message event being handled
    peer            \* a second call on the same Orchestrator, while suspended

\* the state of a handle_task call
engineVars == <<decomposition, sub_tasks, results, prev_result, pc, mode, idx,
                status, cresult, finished, calls, ret>>
\* the state of the other entry points
otherVars == <<gemini_model, route, dec, cls, registry, slack, peer>>
\* the state outside the Orchestrator's methods
restVars == <<registry, slack, peer>>

vars == <<decomposition, sub_tasks, results, prev_result, pc, mode, idx,
          status, cresult, finished, calls, ret, gemini_model, route, dec, cls,
          registry, slack, peer>>

\* no call of that entry point is in progress
Idle == [pc |-> "idle"]

N == Len(decomposition)

\* the shape of `ret`
Ret(f, k, s, v, rs) ==
    [form |-> f, key |-> k, status |-> s, value |-> v, results |-> rs]
Pending == Ret("pending", "", "", None, <<>>)
Raised(exc) == Ret("raised", "", exc, None, <<>>)

\* sequences of length 0..n over S
SeqUpTo(S, n) == UNION {[1..k -> S] : k \in 0..n}

Init ==
    /\ decomposition \in SeqUpTo(SubTasks, MaxSubTasks)
    /\ sub_tasks = decomposition
    /\ results = <<>>
    /\ prev_result = None
    /\ pc = "select"
    /\ mode = "none"
    /\ idx = 1
    /\ status = [i \in 1..Len(decomposition) |-> "pending"]
    /\ cresult = [i \in 1..Len(decomposition) |-> None]
    /\ finished = <<>>
    /\ calls = <<>>
    /\ ret = Pending
    /\ gemini_model = TRUE
    /\ route = Idle
    /\ dec = Idle
    /\ cls = Idle
    /\ registry = Composed(gemini_model)
    /\ slack = Idle
    /\ peer = Idle

\* ------------------------------------------------------------------------
\* Strategy selection (lines 226-231)
\* ------------------------------------------------------------------------
\* all(idx == 0 or not sub_tasks[idx]["payload"].get("input") for idx in ...)
\* evaluated left to right from sub-task i, stopping at the first False:
\* "True", "False", or the exception the subscript or the .get raises
RECURSIVE CanRunConcurrentFrom(_, _)
CanRunConcurrentFrom(st, i) ==
    IF i > Len(st) THEN "True"
    ELSE IF i = 1 THEN CanRunConcurrentFrom(st, i + 1)
    ELSE IF st[i].payload.kind = "absent" THEN "KeyError"
    ELSE IF st[i].payload.kind = "nonmapping" THEN "AttributeError"
    ELSE IF st[i].payload.input \in {NoKey, FalsyInput}
         THEN CanRunConcurrentFrom(st, i + 1)
    ELSE "False"

\* a selection that finds every decomposition independent
AlwaysConcurrent(st) == "True"
\* a selection that finds no decomposition independent
NeverConcurrent(st) == "False"
can_run_concurrent(st) == CanRunConcurrentFrom(st, 1)

\* the pc of the sequential loop once sub-task i-1 is dealt with
LoopPc(i) == IF i > N THEN "aggregate" ELSE "loop"

SelectStrategy ==
    /\ pc = "select"
    /\ UNCHANGED otherVars
    /\ LET c == can_run_concurrent(sub_tasks) IN
       IF c \notin {"True", "False"}
       THEN /\ pc' = "raised"
            /\ ret' = Raised(c)
            /\ mode' = mode
       ELSE IF c = "True" /\ Len(sub_tasks) > 1
       THEN /\ pc' = "gather"
            /\ mode' = "CONCURRENT"
            /\ ret' = ret
       ELSE /\ pc' = LoopPc(1)
            /\ mode' = "SEQUENTIAL"
            /\ ret' = ret
    /\ UNCHANGED <<decomposition, sub_tasks, results, prev_result, idx,
                   status, cresult, finished, calls>>

\* ------------------------------------------------------------------------
\* SEQUENTIAL (lines 250-273)
\* ------------------------------------------------------------------------
\* `if idx > 0 and prev_result is not None` (line 259), i 1-based
Chains(i, prev) == i > 1 /\ prev # None

\* lines 260-262 on a sub-task st: the copy's payload after
\* setdefault("payload", {}) and the write of 'input'
Inject(st, prev) == [st EXCEPT !.payload = Payload("mapping", prev)]

\* sub_task.copy() is shallow: a payload mapping of the template is the very
\* object the write of line 262 goes to; an absent payload is created in the
\* copy only
TemplateAfterInject(st, prev) ==
    IF st.payload.kind = "mapping" THEN Inject(st, prev) ELSE st

\* lines 252-258: the type of sub-task idx has no agent
SeqNoAgent ==
    /\ pc = "loop"
    /\ UNCHANGED otherVars
    /\ ~HasAgent(sub_tasks[idx].type)
    /\ results' = Append(results, NoAgentError(idx))
    /\ idx' = idx + 1
    /\ pc' = LoopPc(idx + 1)
    /\ UNCHANGED <<decomposition, sub_tasks, prev_result, mode, status,
                   cresult, finished, calls, ret>>

\* lines 252-266: the agent is found, the previous result is injected when
\* there is one, and agent.handle is called
SeqDispatch ==
    /\ pc = "loop"
    /\ UNCHANGED otherVars
    /\ HasAgent(sub_tasks[idx].type)
    /\ LET st == sub_tasks[idx] IN
       IF Chains(idx, prev_result)
       THEN IF st.payload.kind = "nonmapping"
            THEN \* line 262: the payload does not support item assignment
                 /\ pc' = "raised"
                 /\ ret' = Raised("TypeError")
                 /\ UNCHANGED <<sub_tasks, calls>>
            ELSE /\ sub_tasks' = [sub_tasks EXCEPT
                                    ![idx] = TemplateAfterInject(st, prev_result)]
                 /\ calls' = Append(calls, [idx |-> idx, injected |-> TRUE,
                                            sub_task |-> Inject(st, prev_result)])
                 /\ pc' = "await"
                 /\ ret' = ret
       ELSE /\ calls' = Append(calls, [idx |-> idx, injected |-> FALSE,
                                       sub_task |-> st])
            /\ pc' = "await"
            /\ UNCHANGED <<sub_tasks, ret>>
    /\ UNCHANGED <<decomposition, results, prev_result, mode, idx, status,
                   cresult, finished>>

\* the values lines 267-273 leave in results and prev_result when the
\* handler of sub-task i ends with outcome o
SeqResult(o, i) == IF o = "raise" THEN AgentFailedError(i) ELSE HandlerResult(o, i)
SeqPrevResult(o, i) == IF o = "raise" THEN None ELSE HandlerResult(o, i)

\* lines 266-273: the awaited agent.handle returns or raises
SeqComplete ==
    /\ pc = "await"
    /\ UNCHANGED otherVars
    /\ \E o \in Outcomes :
         /\ results' = Append(results, SeqResult(o, idx))
         /\ prev_result' = SeqPrevResult(o, idx)
    /\ idx' = idx + 1
    /\ pc' = LoopPc(idx + 1)
    /\ UNCHANGED <<decomposition, sub_tasks, mode, status, cresult, finished,
                   calls, ret>>

\* ------------------------------------------------------------------------
\* CONCURRENT (lines 230-248)
\* ------------------------------------------------------------------------
\* the coroutine asyncio.gather starts next: the event loop starts the
\* run_agent coroutines in the order gather was given them
NextToStart == CHOOSE i \in 1..N :
                   status[i] = "pending" /\ \A j \in 1..(i - 1) : status[j] # "pending"

\* lines 234-241: run_agent(sub_tasks[i], i) runs up to its first await, or
\* to its return when the type has no agent
ConcStart ==
    /\ pc = "gather"
    /\ UNCHANGED otherVars
    /\ \E i \in 1..N : status[i] = "pending"
    /\ LET i == NextToStart IN
       IF HasAgent(sub_tasks[i].type)
       THEN /\ calls' = Append(calls, [idx |-> i, injected |-> FALSE,
                                       sub_task |-> sub_tasks[i]])
            /\ status' = [status EXCEPT ![i] = "await"]
            /\ UNCHANGED <<cresult, finished>>
       ELSE /\ cresult' = [cresult EXCEPT ![i] = NoAgentError(i)]
            /\ status' = [status EXCEPT ![i] = "done"]
            /\ finished' = Append(finished, i)
            /\ calls' = calls
    /\ UNCHANGED <<decomposition, sub_tasks, results, prev_result, pc, mode,
                   idx, ret>>

\* what run_agent returns (lines 241-246) when the handler ends with o
ConcResult(o, i) == IF o = "raise" THEN AgentFailedError(i) ELSE HandlerResult(o, i)

\* lines 241-246: the handler awaited by run_agent(.., i) returns or raises;
\* handlers end in any order
ConcComplete(i) ==
    /\ pc = "gather"
    /\ UNCHANGED otherVars
    /\ status[i] = "await"
    /\ \E o \in Outcomes : cresult' = [cresult EXCEPT ![i] = ConcResult(o, i)]
    /\ status' = [status EXCEPT ![i] = "done"]
    /\ finished' = Append(finished, i)
    /\ UNCHANGED <<decomposition, sub_tasks, results, prev_result, pc, mode,
                   idx, calls, ret>>

\* a join that returns as soon as one coroutine is done
AnyDispatchFinished(st) == \E i \in DOMAIN st : st[i] = "done"
\* asyncio.gather returns once every awaitable is done
AllDispatchesFinished(st) == \A i \in DOMAIN st : st[i] = "done"

\* the results in the order the coroutines finished
GatherByCompletion(cr, fin) == [k \in 1..Len(fin) |-> cr[fin[k]]]
\* asyncio.gather returns the results in the order of its arguments
GatherResults(cr, fin) == [k \in DOMAIN cr |-> cr[k]]

\* lines 247-248: gather returns, results and prev_result are assigned
Join ==
    /\ pc = "gather"
    /\ UNCHANGED otherVars
    /\ AllDispatchesFinished(status)
    /\ results' = GatherResults(cresult, finished)
    /\ prev_result' = IF Len(results') > 0 THEN results'[Len(results')] ELSE None
    /\ pc' = "aggregate"
    /\ UNCHANGED <<decomposition, sub_tasks, mode, idx, status, cresult,
                   finished, calls, ret>>

\* ------------------------------------------------------------------------
\* Aggregation (lines 275-285)
\* ------------------------------------------------------------------------
\* {"error": "No results generated from task execution."}
NoResults == Ret("error", "error", "No results generated from task execution.",
                 None, <<>>)
\* a Result returned as it is
Single(r) == Ret("single", "", "", r, <<>>)

\* a composite that keeps the failed results only
CompositeErrorsOnly(rs) ==
    Ret("composite", "final_status", "Completed with errors or multiple results",
        None, SelectSeq(rs, HasError))
\* line 285
Composite(rs) ==
    Ret("composite", "final_status", "Completed with errors or multiple results",
        None, rs)

\* the first result instead of the last
EarliestResult(rs) == rs[1]
\* results[-1]
LastResult(rs) == rs[Len(rs)]

\* lines 275-285 on the collected results
Aggregated(rs) ==
    IF Len(rs) = 0 THEN NoResults
    ELSE IF Len(rs) = 1 /\ InRaises(rs[1]) THEN Raised("TypeError")
    ELSE IF Len(rs) = 1 /\ ~HasError(rs[1]) THEN Single(rs[1])
    ELSE IF \A i \in 1..Len(rs) : IsDict(rs[i]) /\ ~HasError(rs[i])
         THEN Single(LastResult(rs))
    ELSE Composite(rs)

Aggregate ==
    /\ pc = "aggregate"
    /\ UNCHANGED otherVars
    /\ ret' = Aggregated(results)
    /\ pc' = IF ret'.form = "raised" THEN "raised" ELSE "returned"
    /\ UNCHANGED <<decomposition, sub_tasks, results, prev_result, mode, idx,
                   status, cresult, finished, calls>>

Next ==
    \/ SelectStrategy
    \/ SeqNoAgent
    \/ SeqDispatch
    \/ SeqComplete
    \/ ConcStart
    \/ \E i \in 1..N : ConcComplete(i)
    \/ Join
    \/ Aggregate

Spec == Init /\ [][Next]_vars

\* ------------------------------------------------------------------------
\* The other entry points run while no handle_task call is in progress
\* ------------------------------------------------------------------------
EngineIdle ==
    /\ decomposition = <<>>
    /\ sub_tasks = <<>>
    /\ results = <<>>
    /\ prev_result = None
    /\ pc = "idle"
    /\ mode = "none"
    /\ idx = 1
    /\ status = <<>>
    /\ cresult = <<>>
    /\ finished = <<>>
    /\ calls = <<>>
    /\ ret = Pending

\* ------------------------------------------------------------------------
\* decompose_task (lines 287-325)
\* ------------------------------------------------------------------------
\* an element of the parsed list that is not a mapping (a number, a string)
NotADict == [type |-> "not_a_dict", payload |-> NoPayload]

\* what generate_content_async and ast.literal_eval give: the call raises,
\* the text does not parse, it parses to something that is not a list, or it
\* parses to a list (possibly empty, possibly with elements that are no dicts)
OracleReply(k, v) == [kind |-> k, value |-> v]
NoReply == OracleReply("none", <<>>)
DecomposeReplies ==
    {OracleReply(k, <<>>) : k \in {"raise", "unparsable", "not_list"}} \cup
    {OracleReply("list", v) : v \in SeqUpTo(SubTasks \cup {NotADict}, MaxSubTasks)}

\* a validation that is content with one mapping among the elements
AnyDict(v) == \E i \in 1..Len(v) : v[i] # NotADict
\* all(isinstance(st, dict) for st in sub_tasks) (line 318)
AllDicts(v) == \A i \in 1..Len(v) : v[i] # NotADict

\* lines 306-325: what decompose_task returns for the oracle's reply
DecomposeResult(reply, task) ==
    IF reply.kind = "list" /\ AllDicts(reply.value)
    THEN reply.value
    ELSE <<task>>

DecomposeInit ==
    /\ EngineIdle
    /\ gemini_model \in BOOLEAN
    /\ route = Idle
    /\ cls = Idle
    /\ registry = Composed(gemini_model)
    /\ slack = Idle
    /\ peer = Idle
    /\ \E t \in SubTasks :
           dec = [pc |-> "start", task |-> t, reply |-> NoReply, ret |-> <<>>]

\* lines 291-293: no oracle, the original task is returned
DecomposeNoOracle ==
    /\ dec.pc = "start"
    /\ ~gemini_model
    /\ dec' = [dec EXCEPT !.pc = "done", !.ret = <<dec.task>>]
    /\ UNCHANGED <<engineVars, restVars, gemini_model, route, cls>>

\* lines 294-307: the prompt is built and the oracle is called
DecomposeAsk ==
    /\ dec.pc = "start"
    /\ gemini_model
    /\ dec' = [dec EXCEPT !.pc = "oracle"]
    /\ UNCHANGED <<engineVars, restVars, gemini_model, route, cls>>

\* lines 307-325: the oracle call ends, its text is parsed and validated
DecomposeAnswer ==
    /\ dec.pc = "oracle"
    /\ \E reply \in DecomposeReplies :
           dec' = [dec EXCEPT !.pc = "done", !.reply = reply,
                              !.ret = DecomposeResult(reply, dec.task)]
    /\ UNCHANGED <<engineVars, restVars, gemini_model, route, cls>>

DecomposeNext ==
    \/ DecomposeNoOracle
    \/ DecomposeAsk
    \/ DecomposeAnswer

SpecDecompose == DecomposeInit /\ [][DecomposeNext]_vars

\* ------------------------------------------------------------------------
\* route_task (lines 88-121) and _get_agent_type_from_gemini (lines 123-152)
\* ------------------------------------------------------------------------
\* default_agent_type, as src/orchestrator/instance.py passes it
default_agent_type == "llm_response"
\* task.get("type") of a task without a 'type' key
NoType == "None"
\* a 'type' that is not hashable (a list): no dict lookup accepts it
Unhashable == "['web_search']"
\* the tasks route_task is given
RouteTypes == agents \cup {"complex_report", NoType, Unhashable}
RouteTasks == [type : RouteTypes, payload : Payloads]

\* the oracle's answer to the type prompt: the call raises, or the first
\* word of its text ("" for an empty text)
TypeReplies ==
    {OracleReply("raise", "")} \cup
    {OracleReply("text", w) : w \in agents \cup {"", "complex_report"}}

\* lines 140-152: the type _get_agent_type_from_gemini determines
TypeFromGemini(t, reply) ==
    IF reply.kind = "text" /\ reply.value # "" /\ reply.value \in agents
    THEN reply.value
    ELSE t

\* the default type replaces whatever the task carries
ResolveTypeDefaulting(t, determined) ==
    IF determined # NoType /\ determined \in agents THEN determined
    ELSE default_agent_type
\* the task's own type is kept, whatever was determined
ResolveTypeOwn(t, determined) ==
    IF t = NoType THEN default_agent_type ELSE t
\* lines 97-101: the dispatch type once the oracle has been consulted
ResolveType(t, determined) ==
    IF determined # NoType /\ determined \in agents THEN determined
    ELSE IF t = NoType THEN default_agent_type
    ELSE t

\* the shape of what route_task returns
RouteRet(f, t, k, d, b, v) ==
    [form |-> f, names |-> t, known |-> k, details |-> d, by |-> b, value |-> v]
RoutePending == RouteRet("pending", "", {}, FALSE, "", None)
\* a not-found error that does not list the known types
NotFoundBare(t) == RouteRet("not_found", t, {}, FALSE, "", None)
\* lines 116-118: the error names agent_type and lists list(self.agents.keys())
NotFound(t) == RouteRet("not_found", t, agents, FALSE, "", None)
\* lines 239 and 257: what handle_task's {"error": f"No agent for type:
\* {agent_type}"} names and which known types it lists
EngineNoAgent(t) == [names |-> t, known |-> {}]
\* lines 119-121: {"error": ..., "details": str(e)} of the outer handler
RouteFailed == RouteRet("route_failed", "", {}, TRUE, "", None)
\* lines 108-113: {"error": ... agent_type ..., "details": str(e)}
HandlerFailed(t) == RouteRet("handler_failed", t, {}, TRUE, "", None)
\* line 107: the handler's return value, as it is
RouteResult(t, v) == RouteRet("result", "", {}, FALSE, t, v)
\* the handler's exception leaves route_task
Propagated(t) == RouteRet("raised", t, {}, FALSE, "", None)

\* a handler exception that is not caught
RouteOutcomeUncaught(o, t) ==
    IF o = "raise" THEN Propagated(t) ELSE RouteResult(t, HandlerResult(o, 1))
\* lines 106-113: what route_task returns when the handler ends with o
RouteOutcome(o, t) ==
    IF o = "raise" THEN HandlerFailed(t) ELSE RouteResult(t, HandlerResult(o, 1))

\* lines 102-118 up to the await of agent.handle: the lookup of agent_type
\* raises inside the outer try, finds no agent, or finds one and calls it
Dispatch(r, t) ==
    IF t = Unhashable
    THEN [r EXCEPT !.pc = "done", !.agent_type = t, !.ret = RouteFailed]
    ELSE IF HasAgent(t)
    THEN [r EXCEPT !.pc = "handle", !.agent_type = t,
                   !.handled = Append(@, [type |-> t, task |-> r.task])]
    ELSE [r EXCEPT !.pc = "done", !.agent_type = t, !.ret = NotFound(t)]

RouteInit ==
    /\ EngineIdle
    /\ gemini_model \in BOOLEAN
    /\ dec = Idle
    /\ cls = Idle
    /\ registry = Composed(gemini_model)
    /\ slack = Idle
    /\ peer = Idle
    /\ \E t \in RouteTasks :
           route = [pc |-> "start", task |-> t, agent_type |-> NoType,
                    reply |-> NoReply, consulted |-> 0, handled |-> <<>>,
                    outcome |-> "none", ret |-> RoutePending]

\* lines 93-95 and 102-118: no oracle, the task's own type is looked up
RouteDirect ==
    /\ route.pc = "start"
    /\ ~gemini_model
    /\ route' = Dispatch(route, route.task.type)
    /\ UNCHANGED <<engineVars, restVars, gemini_model, dec, cls>>

\* lines 93-96 and 127-141: the oracle is asked for the type
RouteAsk ==
    /\ route.pc = "start"
    /\ gemini_model
    /\ route' = [route EXCEPT !.pc = "oracle", !.consulted = @ + 1]
    /\ UNCHANGED <<engineVars, restVars, gemini_model, dec, cls>>

\* lines 141-152 and 96-118: the oracle call ends, the type is resolved and
\* looked up
RouteAnswer ==
    /\ route.pc = "oracle"
    /\ \E reply \in TypeReplies :
           route' = Dispatch([route EXCEPT !.reply = reply],
                             ResolveType(route.task.type,
                                         TypeFromGemini(route.task.type, reply)))
    /\ UNCHANGED <<engineVars, restVars, gemini_model, dec, cls>>

\* lines 106-113: the awaited agent.handle returns or raises
RouteHandled ==
    /\ route.pc = "handle"
    /\ \E o \in Outcomes :
           LET r == RouteOutcome(o, route.agent_type) IN
           route' = [route EXCEPT
                       !.pc = IF r.form = "raised" THEN "raised" ELSE "done",
                       !.outcome = o, !.ret = r]
    /\ UNCHANGED <<engineVars, restVars, gemini_model, dec, cls>>

RouteNext ==
    \/ RouteDirect
    \/ RouteAsk
    \/ RouteAnswer
    \/ RouteHandled

SpecRoute == RouteInit /\ [][RouteNext]_vars

\* a call of either dispatching entry point: handle_task or route_task
SpecDispatch == (Init \/ RouteInit) /\ [][Next \/ RouteNext]_vars

\* ------------------------------------------------------------------------
\* classify_task (lines 154-209)
\* ------------------------------------------------------------------------
\* a text is the sequence of its characters
UpperCase ==
    <<"A", "B", "C", "D", "E", "F", "G", "H", "I", "J", "K", "L", "M", "N", "O", "P", "Q", "R", "S", "T", "U", "V", "W", "X", "Y", "Z">>
LowerCase ==
    <<"a", "b", "c", "d", "e", "f", "g", "h", "i", "j", "k", "l", "m", "n", "o", "p", "q", "r", "s", "t", "u", "v", "w", "x", "y", "z">>

\* a character left as it is
KeepCase(c) == c
\* str.lower() on one character
Lower(c) ==
    IF \E i \in 1..Len(UpperCase) : UpperCase[i] = c
    THEN LowerCase[CHOOSE i \in 1..Len(UpperCase) : UpperCase[i] = c]
    ELSE c

\* (text or "").lower() (line 191)
Lowered(text) == [i \in 1..Len(text) |-> Lower(text[i])]

\* `key in text` on strings: key occurs as a substring
Contains(key, text) ==
    \E i \in 1..(Len(text) - Len(key) + 1) :
        SubSeq(text, i, i + Len(key) - 1) = key

\* the words a message is made of in the model
Words ==
    {<<"S", "e", "a", "r", "c", "h">>,
     <<"r", "e", "s", "e", "a", "r", "c", "h">>,
     <<"d", "a", "t", "a", "b", "a", "s", "e">>,
     <<"F", "E", "T", "C", "H">>,
     <<"r", "e", "p", "o", "r", "t">>,
     <<"D", "a", "s", "h", "b", "o", "a", "r", "d">>,
     <<"A", "n", "a", "l", "y", "z", "e">>,
     <<"h", "e", "l", "l", "o">>}

\* the message: the words joined by single spaces
RECURSIVE TextOf(_)
TextOf(ws) ==
    IF Len(ws) = 0 THEN <<>>
    ELSE IF Len(ws) = 1 THEN ws[1]
    ELSE ws[1] \o <<" ">> \o TextOf(Tail(ws))

Users == {"U1", "U2"}
Channels == {"C1", "C2"}

\* lines 191-201: the rule-based type of a text
FallbackType(text) ==
    LET lowered == Lowered(text) IN
    IF Contains(<<"s", "e", "a", "r", "c", "h">>, lowered) THEN "web_search"
    ELSE IF Contains(<<"d", "a", "t", "a">>, lowered) \/ Contains(<<"f", "e", "t", "c", "h">>, lowered)
         THEN "data_retrieval"
    ELSE IF Contains(<<"r", "e", "p", "o", "r", "t">>, lowered) THEN "report_generation"
    ELSE IF Contains(<<"d", "a", "s", "h", "b", "o", "a", "r", "d">>, lowered) \/ Contains(<<"a", "n", "a", "l", "y">>, lowered)
         THEN "analysis_dashboard"
    ELSE default_agent_type

\* the Task classify_task returns: type, payload, user, context.channel
ClassifiedTask(t, p, u, c) == [type |-> t, payload |-> p, user |-> u, channel |-> c]
\* {"query": text}
QueryPayload(text) == [kind |-> "query", query |-> text]
\* the payload of the oracle's mapping
OraclePayload == [kind |-> "oracle", query |-> <<>>]
NoTask == ClassifiedTask("", QueryPayload(<<>>), "", "")

\* lines 190-209: the rule-based Task
FallbackTask(text, u, c) == ClassifiedTask(FallbackType(text), QueryPayload(text), u, c)

\* what the oracle's text parses to: the call raises, the text does not
\* parse, it parses to a non-mapping, or to a mapping that has or lacks
\* 'type' and 'payload' and may bring its own 'user' and 'context'
ClassifyReplies ==
    {OracleReply(k, <<>>) : k \in {"raise", "unparsable", "not_mapping"}} \cup
    {OracleReply("mapping", [type |-> t, has_payload |-> hp, own_user |-> ou]) :
        t \in {"absent", "web_search", "complex_report"},
        hp \in BOOLEAN, ou \in BOOLEAN}

\* line 183: the parsed reply is a mapping with 'type' and 'payload'
ValidClassification(reply) ==
    /\ reply.kind = "mapping"
    /\ reply.value.type # "absent"
    /\ reply.value.has_payload

\* the user the oracle's own mapping carries, when it carries one
OracleUser == "oracle_user"
\* the context.channel the oracle's own mapping carries, when it carries one
OracleChannel == "oracle_channel"

\* a validation that is content with any mapping
ClassifyResultAnyMapping(reply, text, u, c) ==
    IF reply.kind = "mapping"
    THEN ClassifiedTask(reply.value.type, OraclePayload, u, c)
    ELSE FallbackTask(text, u, c)
\* user and context are attached only where the oracle's mapping has none
ClassifyResultKeepsOracleUser(reply, text, u, c) ==
    IF ValidClassification(reply)
    THEN ClassifiedTask(reply.value.type, OraclePayload,
                        IF reply.value.own_user THEN OracleUser ELSE u,
                        IF reply.value.own_user THEN OracleChannel ELSE c)
    ELSE FallbackTask(text, u, c)
\* lines 183-209: the Task returned once the oracle has answered
ClassifyResult(reply, text, u, c) ==
    IF ValidClassification(reply)
    THEN ClassifiedTask(reply.value.type, OraclePayload, u, c)
    ELSE FallbackTask(text, u, c)

ClassifyInit ==
    /\ EngineIdle
    /\ gemini_model \in BOOLEAN
    /\ route = Idle
    /\ dec = Idle
    /\ registry = Composed(gemini_model)
    /\ slack = Idle
    /\ peer = Idle
    /\ \E ws \in SeqUpTo(Words, MaxWords), u \in Users, c \in Channels :
           cls = [pc |-> "start", words |-> ws, text |-> TextOf(ws), user |-> u,
                  channel |-> c, reply |-> NoReply, ret |-> NoTask]

\* lines 159 and 190-209: no oracle, the rule-based Task is returned
ClassifyFallback ==
    /\ cls.pc = "start"
    /\ ~gemini_model
    /\ cls' = [cls EXCEPT !.pc = "done",
                          !.ret = FallbackTask(cls.text, cls.user, cls.channel)]
    /\ UNCHANGED <<engineVars, restVars, gemini_model, route, dec>>

\* lines 159-171: the prompt is built and the oracle is called
ClassifyAsk ==
    /\ cls.pc = "start"
    /\ gemini_model
    /\ cls' = [cls EXCEPT !.pc = "oracle"]
    /\ UNCHANGED <<engineVars, restVars, gemini_model, route, dec>>

\* lines 171-209: the oracle call ends; its classification or the fallback
ClassifyAnswer ==
    /\ cls.pc = "oracle"
    /\ \E reply \in ClassifyReplies :
           cls' = [cls EXCEPT !.pc = "done", !.reply = reply,
                     !.ret = ClassifyResult(reply, cls.text, cls.user, cls.channel)]
    /\ UNCHANGED <<engineVars, restVars, gemini_model, route, dec>>

ClassifyNext ==
    \/ ClassifyFallback
    \/ ClassifyAsk
    \/ ClassifyAnswer

SpecClassify == ClassifyInit /\ [][ClassifyNext]_vars

\* ------------------------------------------------------------------------
\* The composed instance: src/orchestrator/instance.py is imported, then its
\* `orchestrator` is called (src/slack_interface/slack_events.py line 8)
\* ------------------------------------------------------------------------
\* no method of the Orchestrator is running
NoCall ==
    /\ pc = "idle"
    /\ route = Idle
    /\ dec = Idle
    /\ cls = Idle

\* line 38 has run: the Orchestrator is constructed, with or without an oracle
ComposeInit ==
    /\ EngineIdle
    /\ gemini_model \in BOOLEAN
    /\ route = Idle
    /\ dec = Idle
    /\ cls = Idle
    /\ registry = Constructed
    /\ slack = Idle
    /\ peer = Idle

\* lines 41-51: the late-bound slot is filled, the import ends
ComposeLateBind ==
    /\ registry.pc = "constructed"
    /\ registry' = LateBind(registry, gemini_model)
    /\ UNCHANGED <<engineVars, gemini_model, route, dec, cls, slack, peer>>

\* an importer calls orchestrator.route_task
ComposeStartRoute ==
    /\ registry.pc = "composed"
    /\ NoCall
    /\ \E t \in RouteTasks :
           route' = [pc |-> "start", task |-> t, agent_type |-> NoType,
                     reply |-> NoReply, consulted |-> 0, handled |-> <<>>,
                     outcome |-> "none", ret |-> RoutePending]
    /\ UNCHANGED <<engineVars, restVars, gemini_model, dec, cls>>

\* an importer calls orchestrator.classify_task
ComposeStartClassify ==
    /\ registry.pc = "composed"
    /\ NoCall
    /\ \E ws \in SeqUpTo(Words, MaxWords), u \in Users, c \in Channels :
           cls' = [pc |-> "start", words |-> ws, text |-> TextOf(ws), user |-> u,
                   channel |-> c, reply |-> NoReply, ret |-> NoTask]
    /\ UNCHANGED <<engineVars, restVars, gemini_model, route, dec>>

\* an importer calls orchestrator.decompose_task
ComposeStartDecompose ==
    /\ registry.pc = "composed"
    /\ NoCall
    /\ \E t \in SubTasks :
           dec' = [pc |-> "start", task |-> t, reply |-> NoReply, ret |-> <<>>]
    /\ UNCHANGED <<engineVars, restVars, gemini_model, route, cls>>

\* an importer calls orchestrator.handle_task; lines 220-227 have run: the
\* decomposition is the oracle's, or the task alone without an oracle
ComposeStartHandle ==
    /\ registry.pc = "composed"
    /\ NoCall
    /\ decomposition' \in
           IF gemini_model THEN SeqUpTo(SubTasks, MaxComposedSubTasks)
           ELSE [1..1 -> SubTasks]
    /\ sub_tasks' = decomposition'
    /\ status' = [i \in 1..Len(decomposition') |-> "pending"]
    /\ cresult' = [i \in 1..Len(decomposition') |-> None]
    /\ pc' = "select"
    /\ UNCHANGED <<results, prev_result, mode, idx, finished, calls, ret>>
    /\ UNCHANGED otherVars

ComposeNext ==
    \/ ComposeLateBind
    \/ ComposeStartRoute
    \/ ComposeStartClassify
    \/ ComposeStartDecompose
    \/ ComposeStartHandle
    \/ Next
    \/ RouteNext
    \/ DecomposeNext
    \/ ClassifyNext

SpecCompose == ComposeInit /\ [][ComposeNext]_vars

\* ------------------------------------------------------------------------
\* handle_task from its first line (lines 218-227), decompose_task included
\* ------------------------------------------------------------------------
\* the task handle_task is given: a task of a registered type with an empty
\* payload (what the call does with other sub-tasks shows in the oracle's lists)
ExecuteTasks == {[type |-> "web_search", payload |-> Payload("mapping", NoKey)]}

ExecuteInit ==
    /\ decomposition = <<>>
    /\ sub_tasks = <<>>
    /\ results = <<>>
    /\ prev_result = None
    /\ pc = "start"
    /\ mode = "none"
    /\ idx = 1
    /\ status = <<>>
    /\ cresult = <<>>
    /\ finished = <<>>
    /\ calls = <<>>
    /\ ret = Pending
    /\ gemini_model \in BOOLEAN
    /\ route = Idle
    /\ dec = Idle
    /\ cls = Idle
    /\ registry = Composed(gemini_model)
    /\ slack = Idle
    /\ peer = Idle

\* lines 220 and 223-227: no oracle, the task is the only sub-task
HandleSingle ==
    /\ pc = "start"
    /\ ~gemini_model
    /\ \E t \in ExecuteTasks :
           /\ decomposition' = <<t>>
           /\ sub_tasks' = <<t>>
    /\ status' = <<"pending">>
    /\ cresult' = <<None>>
    /\ pc' = "select"
    /\ UNCHANGED <<results, prev_result, mode, idx, finished, calls, ret>>
    /\ UNCHANGED otherVars

\* lines 220-221: decompose_task(task) is called and awaited
HandleDecompose ==
    /\ pc = "start"
    /\ gemini_model
    /\ \E t \in ExecuteTasks :
           dec' = [pc |-> "start", task |-> t, reply |-> NoReply, ret |-> <<>>]
    /\ pc' = "decompose"
    /\ UNCHANGED <<decomposition, sub_tasks, results, prev_result, mode, idx,
                   status, cresult, finished, calls, ret>>
    /\ UNCHANGED <<gemini_model, route, cls, registry, slack, peer>>

\* a failed decomposition is asked for again
DecomposedPcRetry(reply) ==
    IF reply.kind \in {"raise", "unparsable", "not_list"} THEN "start" ELSE "select"
\* line 221: whatever decompose_task returned is taken, the call goes on
DecomposedPc(reply) == "select"

\* lines 221-227: decompose_task has returned its list
HandleDecomposed ==
    /\ pc = "decompose"
    /\ dec.pc = "done"
    /\ decomposition' = dec.ret
    /\ sub_tasks' = dec.ret
    /\ status' = [i \in 1..Len(dec.ret) |-> "pending"]
    /\ cresult' = [i \in 1..Len(dec.ret) |-> None]
    /\ pc' = DecomposedPc(dec.reply)
    /\ UNCHANGED <<results, prev_result, mode, idx, finished, calls, ret>>
    /\ UNCHANGED otherVars

ExecuteNext ==
    \/ HandleSingle
    \/ HandleDecompose
    \/ DecomposeAsk
    \/ DecomposeAnswer
    \/ HandleDecomposed
    \/ Next

\* one handle_task call
SpecExecute == ExecuteInit /\ [][ExecuteNext]_vars

\* one call of handle_task or of route_task
SpecCalls == (ExecuteInit \/ RouteInit) /\ [][ExecuteNext \/ RouteNext]_vars

\* ------------------------------------------------------------------------
\* handle_message_event (src/slack_interface/slack_events.py lines 99-131)
\* ------------------------------------------------------------------------
\* event.get("user"): absent, a user, or the bot itself
MessageUsers == {"None", "U1", "B1"}
\* os.getenv("BOT_USER_ID"): not set, or the bot's id
BotUserIds == {"", "B1"}
\* event.get("text", ""): a text, or the default of a missing key
MessageTexts == {"hello", ""}

\* what the awaited classify_task hands back: a Task, or an exception
ClassifyEnds == {"task", "raise"}
\* what the awaited route_task hands back: a mapping with a truthy 'report',
\* another mapping, a value without .get (None, a string), or an exception
RouteEnds == {"report", "mapping", "nonmapping", "raise"}
\* how a chat_postMessage call ends: it returns, the message being posted,
\* or it raises, nothing being posted
PostEnds == {"ok", "raise"}

\* line 114: the event is dropped before anything is classified
Dropped(user, bot_user_id) ==
    user = "None" \/ (bot_user_id # "" /\ user = bot_user_id)

\* a chat_postMessage call made for the event
Post(kind, o) == [kind |-> kind, delivered |-> (o = "ok")]

\* a handler that posts the fallback whatever happened
FallbackAlways(failed, sent) == TRUE
\* lines 125-127: the except branch runs and response_sent is still False
FallbackDue(failed, sent) == failed /\ ~sent

MessageInit ==
    /\ EngineIdle
    /\ gemini_model \in BOOLEAN
    /\ route = Idle
    /\ dec = Idle
    /\ cls = Idle
    /\ registry = Composed(gemini_model)
    /\ peer = Idle
    /\ \E u \in MessageUsers, b \in BotUserIds, c \in Channels, t \in MessageTexts :
           slack = [pc |-> "start", user |-> u, bot_user_id |-> b, channel |-> c,
                    text |-> t, response_sent |-> FALSE, failed |-> FALSE,
                    result |-> "none", posts |-> <<>>]

\* lines 109-115: no user, or the bot's own message: return
MessageDrop ==
    /\ slack.pc = "start"
    /\ Dropped(slack.user, slack.bot_user_id)
    /\ slack' = [slack EXCEPT !.pc = "done"]
    /\ UNCHANGED <<engineVars, gemini_model, route, dec, cls, registry, peer>>

\* lines 109-119: classify_task is called and awaited
MessageClassify ==
    /\ slack.pc = "start"
    /\ ~Dropped(slack.user, slack.bot_user_id)
    /\ slack' = [slack EXCEPT !.pc = "classify"]
    /\ UNCHANGED <<engineVars, gemini_model, route, dec, cls, registry, peer>>

\* lines 119-120: classify_task ends; route_task is called and awaited
MessageClassified ==
    /\ slack.pc = "classify"
    /\ \E o \in ClassifyEnds :
           slack' = IF o = "raise"
                    THEN [slack EXCEPT !.pc = "finish", !.failed = TRUE]
                    ELSE [slack EXCEPT !.pc = "route"]
    /\ UNCHANGED <<engineVars, gemini_model, route, dec, cls, registry, peer>>

\* lines 120-122: route_task ends; result.get("report") or str(result)
MessageRouted ==
    /\ slack.pc = "route"
    /\ \E r \in RouteEnds :
           slack' = IF r \in {"raise", "nonmapping"}
                    THEN [slack EXCEPT !.pc = "finish", !.failed = TRUE, !.result = r]
                    ELSE [slack EXCEPT !.pc = "post", !.result = r]
    /\ UNCHANGED <<engineVars, gemini_model, route, dec, cls, registry, peer>>

\* lines 123-124: the response is posted; response_sent is set once the
\* call has returned
MessagePost ==
    /\ slack.pc = "post"
    /\ \E o \in PostEnds :
           slack' = [slack EXCEPT !.pc = "finish",
                                  !.posts = Append(@, Post("response", o)),
                                  !.response_sent = (o = "ok"),
                                  !.failed = (o = "raise")]
    /\ UNCHANGED <<engineVars, gemini_model, route, dec, cls, registry, peer>>

\* lines 125-131: after an exception the fallback is posted unless the
\* response was sent; an exception of that post is swallowed
MessageFinish ==
    /\ slack.pc = "finish"
    /\ IF FallbackDue(slack.failed, slack.response_sent)
       THEN \E o \in PostEnds :
                slack' = [slack EXCEPT !.pc = "done",
                                       !.posts = Append(@, Post("fallback", o))]
       ELSE slack' = [slack EXCEPT !.pc = "done"]
    /\ UNCHANGED <<engineVars, gemini_model, route, dec, cls, registry, peer>>

MessageNext ==
    \/ MessageDrop
    \/ MessageClassify
    \/ MessageClassified
    \/ MessageRouted
    \/ MessagePost
    \/ MessageFinish

SpecMessage == MessageInit /\ [][MessageNext]_vars

\* ------------------------------------------------------------------------
\* slack_events and verify_slack_signature
\* (src/slack_interface/slack_events.py lines 17 and 28-96)
\* ------------------------------------------------------------------------
\* line 17: os.getenv("SLACK_S=IGNING_SECRET"); no environment variable has
\* a name holding '=', so the lookup gives None whatever the environment is
SLACK_SIGNING_SECRET == "None"

\* the X-Slack-Request-Timestamp header: absent, not a number, more than
\* five minutes away from now, or within five minutes
Timestamps == {"missing", "garbled", "stale", "fresh"}
\* the X-Slack-Signature header: absent, or a value that differs from or
\* equals the HMAC of the request under the workspace's signing secret
Signatures == {"missing", "mismatch", "match"}
\* the body: not JSON, the URL verification challenge, or an event
Bodies == {"unparsable", "url_verification", "message", "reaction_added", "other"}

Requests ==
    [timestamp : Timestamps, signature : Signatures, body : Bodies,
     user : MessageUsers, bot_user_id : BotUserIds, handler_raises : BOOLEAN]

\* a verification that lets every request through
VerifyAccepts(req) == "ok"
\* lines 41-52: "ok" when the function returns, else the exception it raises
verify_slack_signature(req) ==
    IF req.timestamp = "missing" THEN "TypeError"
    ELSE IF req.timestamp = "garbled" THEN "ValueError"
    ELSE IF req.timestamp = "stale" THEN "HTTPException"
    ELSE IF SLACK_SIGNING_SECRET = "None" THEN "AttributeError"
    ELSE IF req.signature = "missing" THEN "TypeError"
    ELSE IF req.signature = "mismatch" THEN "HTTPException"
    ELSE "ok"

\* what a slack_events call did: the body it returned and the event
\* handlers it ran
EventsResult(body, hs) == [body |-> body, handlers |-> hs]
NoEventsResult == EventsResult("none", <<>>)
\* lines 93-96: {"ok": False, "error": str(e)}
EventsError(hs) == EventsResult("error", hs)

\* line 85: the message is handed to handle_message_event
MessageAccepted(req) ==
    req.user # "None" /\ (req.bot_user_id = "" \/ req.user # req.bot_user_id)

\* lines 70-92: the dispatch of a verified request
EventsDispatch(req) ==
    IF req.body = "unparsable" THEN EventsError(<<>>)
    ELSE IF req.body = "url_verification" THEN EventsResult("challenge", <<>>)
    ELSE IF req.body = "message" /\ MessageAccepted(req)
         THEN EventsResult("ok", <<"handle_message_event">>)
    ELSE IF req.body = "reaction_added"
         THEN IF req.handler_raises
              THEN EventsError(<<"handle_reaction_event">>)
              ELSE EventsResult("ok", <<"handle_reaction_event">>)
    ELSE EventsResult("ok", <<>>)

\* lines 68-96: slack_events on a request
SlackEventsResult(req) ==
    IF verify_slack_signature(req) = "ok"
    THEN EventsDispatch(req)
    ELSE EventsError(<<>>)

EventsInit ==
    /\ EngineIdle
    /\ gemini_model \in BOOLEAN
    /\ route = Idle
    /\ dec = Idle
    /\ cls = Idle
    /\ registry = Composed(gemini_model)
    /\ peer = Idle
    /\ \E req \in Requests :
           slack = [pc |-> "start", req |-> req, result |-> NoEventsResult]

\* lines 56-96: the endpoint handles the request and returns
slack_events ==
    /\ slack.pc = "start"
    /\ slack' = [slack EXCEPT !.pc = "done", !.result = SlackEventsResult(slack.req)]
    /\ UNCHANGED <<engineVars, gemini_model, route, dec, cls, registry, peer>>

EventsNext == slack_events

SpecEvents == EventsInit /\ [][EventsNext]_vars

\* ------------------------------------------------------------------------
\* Two calls on one Orchestrator, interleaved by the event loop
\* ------------------------------------------------------------------------
\* One call runs at a time: the running call's locals are the variables of
\* the module, the suspended call's locals are kept in `peer`.  What the two
\* calls share is self.agents and self.gemini_model, which neither writes.

\* the sub-tasks of the decompositions of the two calls
PairSubTasks ==
    [type : TaskTypes,
     payload : {Payload("mapping", NoKey), Payload("mapping", TruthyInput)}]

\* the second call: a chain of two, an independent pair, or a single task,
\* each with the outcomes of its handlers
PeerCalls ==
    {[d |-> <<[type |-> "web_search", payload |-> Payload("mapping", NoKey)],
              [type |-> "web_search", payload |-> Payload("mapping", TruthyInput)]>>,
      plan |-> <<"ok", "error">>],
     [d |-> <<[type |-> "web_search", payload |-> Payload("mapping", NoKey)],
              [type |-> "complex_report", payload |-> Payload("mapping", NoKey)]>>,
      plan |-> <<"raise", "ok">>],
     [d |-> <<[type |-> "web_search", payload |-> Payload("mapping", NoKey)]>>,
      plan |-> <<"ok">>]}

\* the locals of the running handle_task call (lines 221-285)
Frame ==
    [decomposition |-> decomposition, sub_tasks |-> sub_tasks,
     results |-> results, prev_result |-> prev_result, pc |-> pc, mode |-> mode,
     idx |-> idx, status |-> status, cresult |-> cresult,
     finished |-> finished, calls |-> calls, ret |-> ret]

\* the locals of a handle_task call that has its decomposition d (line 227)
NewFrame(d) ==
    [decomposition |-> d, sub_tasks |-> d, results |-> <<>>,
     prev_result |-> None, pc |-> "select", mode |-> "none", idx |-> 1,
     status |-> [i \in 1..Len(d) |-> "pending"],
     cresult |-> [i \in 1..Len(d) |-> None],
     finished |-> <<>>, calls |-> <<>>, ret |-> Pending]

\* the positions at which a handle_task call is suspended: before its first
\* step, in `await agent.handle(...)` (line 266), in `await asyncio.gather`
\* (line 247)
AwaitPoints == {"select", "await", "gather"}

\* a resumption in which `results` is one list that both calls append to
ResumedSharingResults(saved, suspended) ==
    [saved EXCEPT !.results = suspended.results]
\* the frame a call resumes with, `suspended` being the frame of the call
\* that gives way: a coroutine resumes with its own locals (lines 226-227:
\* results and prev_result are locals, run_agent is a closure of the call)
Resumed(saved, suspended) == saved

HandlePairInit ==
    /\ \E d \in SeqUpTo(PairSubTasks, MaxPairSubTasks), other \in PeerCalls :
           /\ decomposition = d
           /\ status = [i \in 1..Len(d) |-> "pending"]
           /\ cresult = [i \in 1..Len(d) |-> None]
           \* how the handlers of the call end, per sub-task (a sub-task
           \* without an agent has no handler: its entry is never read)
           /\ \E plan \in [1..Len(d) -> {"raise", "ok", "error"}] :
                  peer = [kind |-> "handle_task", mine |-> plan,
                          saved |-> NewFrame(other.d), plan |-> other.plan,
                          interleaved |-> FALSE]
    /\ sub_tasks = decomposition
    /\ results = <<>>
    /\ prev_result = None
    /\ pc = "select"
    /\ mode = "none"
    /\ idx = 1
    /\ finished = <<>>
    /\ calls = <<>>
    /\ ret = Pending
    /\ gemini_model = TRUE
    /\ route = Idle
    /\ dec = Idle
    /\ cls = Idle
    /\ registry = Composed(gemini_model)
    /\ slack = Idle

\* the handlers of the running call end as its plan says
FollowsPlan ==
    /\ pc = "await" =>
           /\ results' = Append(results, SeqResult(peer.mine[idx], idx))
           /\ prev_result' = SeqPrevResult(peer.mine[idx], idx)
    /\ pc = "gather" =>
           \A i \in 1..N :
               (status[i] = "await" /\ status'[i] = "done")
                   => cresult'[i] = ConcResult(peer.mine[i], i)

\* a step of the running handle_task call
HandlePairStep ==
    /\ peer.kind = "handle_task"
    /\ Next
    /\ FollowsPlan

\* the running call is suspended at an await (or is over) and the event loop
\* resumes the other call
HandleSwitch ==
    /\ peer.kind = "handle_task"
    /\ pc \in AwaitPoints \cup {"returned", "raised"}
    /\ peer.saved.pc \in AwaitPoints
    /\ LET r == Resumed(peer.saved, Frame) IN
           /\ decomposition' = r.decomposition
           /\ sub_tasks' = r.sub_tasks
           /\ results' = r.results
           /\ prev_result' = r.prev_result
           /\ pc' = r.pc
           /\ mode' = r.mode
           /\ idx' = r.idx
           /\ status' = r.status
           /\ cresult' = r.cresult
           /\ finished' = r.finished
           /\ calls' = r.calls
           /\ ret' = r.ret
    /\ peer' = [peer EXCEPT
                  !.mine = peer.plan, !.saved = Frame, !.plan = peer.mine,
                  !.interleaved = @ \/ (/\ pc \in {"await", "gather"}
                                        /\ peer.saved.pc \in {"await", "gather"})]
    /\ UNCHANGED <<gemini_model, route, dec, cls, registry, slack>>

\* the positions at which a route_task call is suspended: before its first
\* step, in `await self._get_agent_type_from_gemini(task)` (line 96, the
\* await of line 141 inside), in `await agent.handle(task)` (line 107)
RouteAwaitPoints == {"start", "oracle", "handle"}

\* a route_task call that has not begun
NewRoute(t) ==
    [pc |-> "start", task |-> t, agent_type |-> NoType, reply |-> NoReply,
     consulted |-> 0, handled |-> <<>>, outcome |-> "none", ret |-> RoutePending]

\* the second route_task call: a registered type, a type without an agent,
\* a task without a type
PeerRouteTasks ==
    {[type |-> t, payload |-> Payload("mapping", NoKey)] :
         t \in {"web_search", "complex_report", NoType}}

RoutePairInit ==
    /\ EngineIdle
    /\ gemini_model \in BOOLEAN
    /\ dec = Idle
    /\ cls = Idle
    /\ registry = Composed(gemini_model)
    /\ slack = Idle
    /\ \E t \in RouteTasks, other \in PeerRouteTasks :
           /\ route = NewRoute(t)
           /\ peer = [kind |-> "route_task", mine |-> <<>>,
                      saved |-> NewRoute(other), plan |-> <<>>,
                      interleaved |-> FALSE]

\* a step of the running route_task call
RoutePairStep ==
    /\ peer.kind = "route_task"
    /\ RouteNext

\* the running route_task call is suspended at an await (or is over) and
\* the event loop resumes the other call, whose locals (agent_type,
\* determined_agent_type, agent: lines 93-102) are its own
RouteSwitch ==
    /\ peer.kind = "route_task"
    /\ route.pc \in RouteAwaitPoints \cup {"done"}
    /\ peer.saved.pc \in RouteAwaitPoints
    /\ route' = peer.saved
    /\ peer' = [peer EXCEPT
                  !.saved = route,
                  !.interleaved = @ \/ (/\ route.pc \in {"oracle", "handle"}
                                        /\ peer.saved.pc \in {"oracle", "handle"})]
    /\ UNCHANGED <<engineVars, gemini_model, dec, cls, registry, slack>>

PairNext ==
    \/ HandlePairStep
    \/ HandleSwitch
    \/ RoutePairStep
    \/ RouteSwitch

SpecPair == (HandlePairInit \/ RoutePairInit) /\ [][PairNext]_vars

\* lines 250-285 run without interruption on decomposition d from sub-task
\* i on, the handlers ending as plan says
RECURSIVE AloneSeq(_, _, _, _, _)
AloneSeq(d, plan, i, prev, rs) ==
    IF i > Len(d) THEN Aggregated(rs)
    ELSE IF ~HasAgent(d[i].type)
    THEN AloneSeq(d, plan, i + 1, prev, Append(rs, NoAgentError(i)))
    ELSE IF Chains(i, prev) /\ d[i].payload.kind = "nonmapping"
    THEN Raised("TypeError")
    ELSE AloneSeq(d, plan, i + 1, SeqPrevResult(plan[i], i),
                  Append(rs, SeqResult(plan[i], i)))

\* lines 229-285: what handle_task returns on decomposition d when nothing
\* else runs on the Orchestrator and the handlers end as plan says
AloneReturn(d, plan) ==
    LET c == CanRunConcurrentFrom(d, 1) IN
    IF c \notin {"True", "False"} THEN Raised(c)
    ELSE IF c = "True" /\ Len(d) > 1
    THEN Aggregated([i \in 1..Len(d) |->
                        IF HasAgent(d[i].type) THEN ConcResult(plan[i], i)
                        ELSE NoAgentError(i)])
    ELSE AloneSeq(d, plan, 1, None, <<>>)

\* lines 92-121: what route_task returns on task t when nothing else runs on
\* the Orchestrator, the oracle (when there is one) answering reply and the
\* handler ending with outcome o
AloneRouteReturn(t, g, reply, o) ==
    LET agent_type ==
            IF g THEN ResolveType(t.type, TypeFromGemini(t.type, reply))
            ELSE t.type IN
    IF agent_type = Unhashable THEN RouteFailed
    ELSE IF HasAgent(agent_type) THEN RouteOutcome(o, agent_type)
    ELSE NotFound(agent_type)

\* ------------------------------------------------------------------------
\* Properties
\* ------------------------------------------------------------------------
\* handle_task has returned or raised
Terminated == pc \in {"returned", "raised"}
\* the positions in `calls` of the invocations made for sub-task i
CallsOf(i) == {k \in 1..Len(calls) : calls[k].idx = i}
\* the sub-task's payload is a mapping that has the 'input' key, whatever its value
PrePopulates(st) == st.payload.kind = "mapping" /\ st.payload.input # NoKey
\* the dispatch of sub-task i failed: its handler raised or its type has no agent
DispatchFailed(r) == r.kind \in {"failed", "no_agent"}
\* a Result (a mapping) that carries no error indicator
CleanResult(r) == IsDict(r) /\ ~HasError(r)

\* C1: handle_task is total: for every decomposition and every handler
\* outcome it returns a Result and never raises to its caller.
HandleTaskTotal == pc # "raised"

\* C2: whenever a path is taken, it is CONCURRENT if and only if there is
\* more than one sub-task and no sub-task after the first has the 'input'
\* key in its payload, whatever its value; otherwise it is SEQUENTIAL.
StrategyByKeyPresence ==
    mode # "none" =>
        (mode = "CONCURRENT" <=>
            (N > 1 /\ \A i \in 2..N : ~PrePopulates(decomposition[i])))

\* C3: in SEQUENTIAL mode, whenever the engine writes the chaining key into
\* the payload of sub-task i, the value is the Result of sub-task i-1, never
\* that of an earlier sub-task.
ChainedFromPredecessor ==
    \A k \in 1..Len(calls) :
        calls[k].injected =>
            /\ calls[k].idx - 1 \in 1..Len(results)
            /\ calls[k].sub_task.payload.input = results[calls[k].idx - 1]

\* C4: when the decomposition has several sub-tasks, all with a registered
\* type and a payload without 'input', and every handler succeeds, the
\* agents are called in list order and every sub-task after the first is
\* handled with payload['input'] equal to the result of the sub-task before it.
ChainsDecomposedTask ==
    (/\ pc = "returned"
     /\ N > 1
     /\ \A i \in 1..N : /\ HasAgent(decomposition[i].type)
                        /\ decomposition[i].payload = Payload("mapping", NoKey)
     /\ \A i \in 1..Len(results) : CleanResult(results[i]))
    => /\ Len(calls) = N
       /\ \A k \in 1..N : calls[k].idx = k
       /\ \A k \in 2..N : calls[k].sub_task.payload.input = results[k - 1]

\* C5: in SEQUENTIAL mode, when the dispatch of sub-task i failed, sub-task
\* i+1 is dispatched without a chaining key written by the engine: its
\* payload is the one of the decomposition and holds no earlier Result.
ChainBreaksOnFailure ==
    mode = "SEQUENTIAL" =>
        \A k \in 1..Len(calls) :
            (calls[k].idx > 1 /\ DispatchFailed(results[calls[k].idx - 1]))
            => /\ ~calls[k].injected
               /\ calls[k].sub_task = decomposition[calls[k].idx]

\* C6: SEQUENTIAL execution never short-circuits: when handle_task is over,
\* every sub-task has contributed exactly one Result at its own index and
\* every sub-task with a registered type has had its handler invoked.
SequentialNeverShortCircuits ==
    (mode = "SEQUENTIAL" /\ Terminated) =>
        /\ Len(results) = N
        /\ \A i \in 1..Len(results) : results[i] = None \/ results[i].idx = i
        /\ \A i \in 1..N :
               HasAgent(decomposition[i].type) => Cardinality(CallsOf(i)) = 1

AllResultsInOrder(rs) ==
    /\ Len(rs) = N
    /\ rs = results
    /\ \A i \in 1..N : rs[i] = None \/ rs[i].idx = i

\* C10 as stated: when some collected Result carries an error indicator, the
\* return is {status: "completed_with_errors_or_multiple", results: [...]}
\* with every Result, one per sub-task, in sub-task order.
ErrorsGiveStatusComposite ==
    (pc = "returned" /\ \E i \in 1..Len(results) : HasError(results[i]))
    => /\ ret.form = "composite"
       /\ ret.key = "status"
       /\ ret.status = "completed_with_errors_or_multiple"
       /\ AllResultsInOrder(ret.results)

\* C10 amended: when some collected Result carries an error indicator, the
\* return is {final_status: "Completed with errors or multiple results",
\* results: [...]} with every Result, one per sub-task, in sub-task order.
ErrorsGiveFinalStatusComposite ==
    (pc = "returned" /\ \E i \in 1..Len(results) : HasError(results[i]))
    => /\ ret.form = "composite"
       /\ ret.key = "final_status"
       /\ ret.status = "Completed with errors or multiple results"
       /\ AllResultsInOrder(ret.results)

\* the second of three sub-tasks failed, the other two succeeded
ErrorsCompositeWitness ==
    /\ pc = "returned"
    /\ N = 3
    /\ CleanResult(results[1])
    /\ results[2].kind = "failed"
    /\ CleanResult(results[3])
    /\ ret.form = "composite"
    /\ Len(ret.results) = 3

\* C11: decompose_task returns at least one sub-task for every oracle
\* reply, an empty list included, so that handle_task never has zero results.
DecomposeNonEmpty == dec.pc = "done" => Len(dec.ret) >= 1

\* the oracle gave no usable decomposition: none is configured, its call
\* failed, its text did not parse, or the parsed value is not a list of mappings
NoUsableDecomposition ==
    \/ ~gemini_model
    \/ dec.reply.kind \in {"raise", "unparsable", "not_list"}
    \/ /\ dec.reply.kind = "list"
       /\ \E i \in 1..Len(dec.reply.value) : dec.reply.value[i] = NotADict

\* C12: identity fallback: with no usable decomposition, decompose_task
\* returns exactly the one-element sequence holding the original task.
IdentityFallback ==
    (dec.pc = "done" /\ NoUsableDecomposition) => dec.ret = <<dec.task>>

\* the oracle returned a list with a mapping and a non-mapping element
IdentityFallbackWitness ==
    /\ dec.pc = "done"
    /\ gemini_model
    /\ dec.reply.kind = "list"
    /\ Len(dec.reply.value) = 2
    /\ dec.reply.value[1] # NotADict
    /\ dec.reply.value[2] = NotADict
    /\ dec.ret = <<dec.task>>

\* the oracle of the route_task call named a registered type
UsableSuggestion ==
    /\ gemini_model
    /\ route.reply.kind = "text"
    /\ route.reply.value \in agents

\* the type route_task looked up
RouteResolved == route.pc \in {"handle", "done"}

\* C13 as stated: no handler is invoked for a task whose own type id has no
\* handler, in handle_task and in route_task.
HandlersOnlyForRegisteredTasks ==
    /\ \A k \in 1..Len(calls) : calls[k].sub_task.type \in agents
    /\ route.pc # "idle" =>
           \A k \in 1..Len(route.handled) : route.handled[k].task.type \in agents

\* C13 amended: no handler is invoked for a type id without a handler, the
\* type being the sub-task's own in handle_task and the one route_task
\* resolved (after the oracle's suggestion and the default); such a dispatch
\* gives exactly one error Result and no handle() call.
HandlersOnlyForDispatchTypes ==
    /\ \A k \in 1..Len(calls) : calls[k].sub_task.type \in agents
    /\ \A i \in 1..Len(results) :
           decomposition[i].type \notin agents
               => results[i] = NoAgentError(i) /\ CallsOf(i) = {}
    /\ \A i \in 1..Len(status) :
           (status[i] = "done" /\ decomposition[i].type \notin agents)
               => cresult[i] = NoAgentError(i) /\ CallsOf(i) = {}
    /\ route.pc # "idle" =>
           /\ \A k \in 1..Len(route.handled) : route.handled[k].type \in agents
           /\ (route.pc = "done" /\ route.agent_type \in {"complex_report", NoType})
                  => /\ route.ret.form = "not_found"
                     /\ route.handled = <<>>

\* a task of an unregistered type was routed, the oracle named a registered
\* type, and that type's handler handled the task
DispatchTypeWitness ==
    /\ route.pc = "done"
    /\ route.task.type = "complex_report"
    /\ UsableSuggestion
    /\ Len(route.handled) = 1
    /\ route.handled[1].type = route.reply.value
    /\ route.ret.form = "result"

\* C14 as stated: route_task on a task whose type is not registered returns
\* an error with the task's type and the list of known type ids and invokes
\* no handler, with or without an oracle and whatever the oracle answers.
UnregisteredAlwaysNotFound ==
    (route.pc = "done" /\ route.task.type = "complex_report")
    => /\ route.ret.form = "not_found"
       /\ route.ret.names = route.task.type
       /\ route.ret.known = agents
       /\ route.handled = <<>>

\* C14 amended: the same, when no oracle is configured or the oracle's
\* suggestion is not a registered type id.
UnregisteredNotFoundUnlessOverridden ==
    (route.pc = "done" /\ route.task.type = "complex_report" /\ ~UsableSuggestion)
    => /\ route.ret.form = "not_found"
       /\ route.ret.names = route.task.type
       /\ route.ret.known = agents
       /\ route.handled = <<>>

\* the oracle answered with an unregistered word and the task was not routed
UnregisteredNotFoundWitness ==
    /\ route.pc = "done"
    /\ route.task.type = "complex_report"
    /\ gemini_model
    /\ route.reply = OracleReply("text", "complex_report")
    /\ route.ret.form = "not_found"
    /\ route.ret.known = agents

\* C15: the error Result handle_task records for a sub-task of an
\* unregistered type is the Router's AgentNotFound: it names the missing
\* type and lists all known type ids.
EngineNotFoundListsKnownTypes ==
    \A i \in 1..Len(results) :
        results[i].kind = "no_agent" =>
            /\ EngineNoAgent(decomposition[i].type).names
                   = NotFound(decomposition[i].type).names
            /\ EngineNoAgent(decomposition[i].type).known
                   = NotFound(decomposition[i].type).known

\* C16: route_task is total: it never raises, it always returns a Result,
\* a handler exception gives {error, details}, and a failure of the oracle
\* call or of the lookup is absorbed.
RouteTotal ==
    route.pc # "idle" =>
        /\ route.pc # "raised"
        /\ route.pc = "done" =>
               route.ret.form \in
                   {"result", "not_found", "handler_failed", "route_failed"}
        /\ (route.pc = "done" /\ route.outcome = "raise")
               => /\ route.ret.form = "handler_failed"
                  /\ route.ret.details
                  /\ route.ret.names = route.agent_type
        /\ (route.pc = "done" /\ route.task.type = Unhashable /\ ~UsableSuggestion)
               => route.ret.form = "route_failed"

\* the oracle call failed and then the handler raised
RouteTotalWitness ==
    /\ route.pc = "done"
    /\ gemini_model
    /\ route.reply.kind = "raise"
    /\ route.outcome = "raise"
    /\ route.ret.form = "handler_failed"

\* C17 as stated: for a task of a registered type whose handler returns,
\* route_task returns the Result of the handler registered for the task's
\* own type, unmodified, and that handler receives the task as given.
ReturnsOwnHandlerResult ==
    (/\ route.pc = "done"
     /\ route.task.type \in agents
     /\ route.outcome \notin {"none", "raise"})
    => /\ route.ret = RouteResult(route.task.type, HandlerResult(route.outcome, 1))
       /\ route.handled = <<[type |-> route.task.type, task |-> route.task]>>

\* the type route_task dispatches a task of a registered type on
DispatchTypeOfRegistered ==
    IF UsableSuggestion THEN route.reply.value ELSE route.task.type

\* C17 amended: the Result returned, unmodified, is that of the handler of
\* the dispatch type: the task's own type unless a configured oracle names
\* another registered type; that handler receives the task as given.
ReturnsDispatchedHandlerResult ==
    (/\ route.pc = "done"
     /\ route.task.type \in agents
     /\ route.outcome \notin {"none", "raise"})
    => /\ route.ret = RouteResult(DispatchTypeOfRegistered,
                                  HandlerResult(route.outcome, 1))
       /\ route.handled = <<[type |-> DispatchTypeOfRegistered,
                             task |-> route.task]>>

\* a web_search task was handed to llm_response on the oracle's suggestion
ReturnsDispatchedWitness ==
    /\ route.pc = "done"
    /\ route.task.type = "web_search"
    /\ UsableSuggestion
    /\ route.reply.value = "llm_response"
    /\ route.outcome = "ok"
    /\ route.ret.by = "llm_response"
    /\ route.handled[1].task = route.task

\* C18: an oracle suggestion changes the dispatch type only if it names a
\* registered type id; otherwise it is ignored, and the dispatch type is the
\* task's own type, the default type, or the registered suggestion.
OracleOverridesOnlyWithRegistered ==
    RouteResolved =>
        /\ UsableSuggestion => route.agent_type = route.reply.value
        /\ (~UsableSuggestion /\ route.task.type # NoType)
               => route.agent_type = route.task.type
        /\ (~UsableSuggestion /\ route.task.type = NoType)
               => route.agent_type \in {NoType, default_agent_type}

\* the oracle named an unregistered type and the task's own type was kept
OracleIgnoredWitness ==
    /\ route.pc = "done"
    /\ gemini_model
    /\ route.reply = OracleReply("text", "complex_report")
    /\ route.task.type = "web_search"
    /\ route.agent_type = "web_search"
    /\ Len(route.handled) = 1

\* C19: a task without a type is dispatched on the default type whenever the
\* oracle gave no usable suggestion: none configured, failure, or an
\* unregistered suggestion.
DefaultTypeWhenNoType ==
    (RouteResolved /\ route.task.type = NoType /\ ~UsableSuggestion)
    => route.agent_type = default_agent_type

\* the keywords each word of the model contains, read off the word itself
KeywordsOf(w) ==
    IF w \in {<<"S", "e", "a", "r", "c", "h">>, <<"r", "e", "s", "e", "a", "r", "c", "h">>} THEN {"search"}
    ELSE IF w = <<"d", "a", "t", "a", "b", "a", "s", "e">> THEN {"data"}
    ELSE IF w = <<"F", "E", "T", "C", "H">> THEN {"fetch"}
    ELSE IF w = <<"r", "e", "p", "o", "r", "t">> THEN {"report"}
    ELSE IF w = <<"D", "a", "s", "h", "b", "o", "a", "r", "d">> THEN {"dashboard"}
    ELSE IF w = <<"A", "n", "a", "l", "y", "z", "e">> THEN {"analy"}
    ELSE {}
\* the keywords a message contains
KeywordsIn(ws) == UNION {KeywordsOf(ws[i]) : i \in 1..Len(ws)}

\* the type the prioritised keyword rule assigns to a message
ExpectedType(ws) ==
    IF "search" \in KeywordsIn(ws) THEN "web_search"
    ELSE IF KeywordsIn(ws) \cap {"data", "fetch"} # {} THEN "data_retrieval"
    ELSE IF "report" \in KeywordsIn(ws) THEN "report_generation"
    ELSE IF KeywordsIn(ws) \cap {"dashboard", "analy"} # {} THEN "analysis_dashboard"
    ELSE default_agent_type

\* the oracle gave no classification: none configured, or its reply is not a
\* mapping with 'type' and 'payload'
ClassifyFallbackCase ==
    \/ ~gemini_model
    \/ cls.reply.kind # "mapping"
    \/ cls.reply.value.type = "absent"
    \/ ~cls.reply.value.has_payload

\* C20: the keyword fallback of classify_task is exact and prioritised on
\* the lower-cased text (search, then data or fetch, then report, then
\* dashboard or analy, then the default type), and in every fallback case
\* payload.query is the input text and user and channel are the inputs.
KeywordFallbackExact ==
    (cls.pc = "done" /\ ClassifyFallbackCase)
    => /\ cls.ret.type = ExpectedType(cls.words)
       /\ cls.ret.payload = [kind |-> "query", query |-> TextOf(cls.words)]
       /\ cls.ret.user = cls.user
       /\ cls.ret.channel = cls.channel

\* "FETCH report": upper case is matched and data_retrieval wins over report
KeywordFallbackWitness ==
    /\ cls.pc = "done"
    /\ ~gemini_model
    /\ cls.words = <<<<"F", "E", "T", "C", "H">>, <<"r", "e", "p", "o", "r", "t">>>>
    /\ cls.ret.type = "data_retrieval"
    /\ cls.ret.payload.query = TextOf(cls.words)

\* the oracle of the classify_task call failed: its call raised, its text
\* did not parse, or the parsed value is no mapping or lacks 'type' or 'payload'
ClassifyOracleFailed ==
    /\ gemini_model
    /\ \/ cls.reply.kind \in {"raise", "unparsable", "not_mapping"}
       \/ /\ cls.reply.kind = "mapping"
          /\ (cls.reply.value.type = "absent" \/ ~cls.reply.value.has_payload)

\* C21: any oracle failure during classify_task is soft: the call ends by
\* returning, and what it returns is exactly the Task the keyword fallback
\* gives for the same text, user and channel when no oracle is configured.
OracleFailureIsSoft ==
    /\ cls.pc # "idle" => cls.pc \in {"start", "oracle", "done"}
    /\ (cls.pc = "done" /\ ClassifyOracleFailed)
           => cls.ret = FallbackTask(cls.text, cls.user, cls.channel)

\* the oracle answered with a mapping that has a 'type' but no 'payload', and
\* the keyword fallback classified the text
OracleFailureWitness ==
    /\ cls.pc = "done"
    /\ gemini_model
    /\ cls.reply.kind = "mapping"
    /\ cls.reply.value.type = "complex_report"
    /\ ~cls.reply.value.has_payload
    /\ cls.words = <<<<"r", "e", "p", "o", "r", "t">>>>
    /\ cls.ret.type = "report_generation"

\* C22: classify_task returns the oracle's classification only when the
\* parsed response is a mapping with both 'type' and 'payload'; the Task then
\* has the oracle's type and payload and the caller's user and channel, also
\* when the oracle's mapping brought a user or context of its own.
OracleClassificationAttachesCaller ==
    cls.pc = "done" =>
        /\ cls.ret.payload.kind = "oracle"
               => /\ gemini_model
                  /\ cls.reply.kind = "mapping"
                  /\ cls.reply.value.type # "absent"
                  /\ cls.reply.value.has_payload
        /\ (gemini_model /\ ~ClassifyOracleFailed)
               => /\ cls.ret.type = cls.reply.value.type
                  /\ cls.ret.payload = OraclePayload
                  /\ cls.ret.user = cls.user
                  /\ cls.ret.channel = cls.channel

\* the oracle's mapping carried its own user and context, the caller's won
OracleClassificationWitness ==
    /\ cls.pc = "done"
    /\ gemini_model
    /\ cls.reply.kind = "mapping"
    /\ cls.reply.value.type = "web_search"
    /\ cls.reply.value.has_payload
    /\ cls.reply.value.own_user
    /\ cls.ret.type = "web_search"
    /\ cls.ret.payload = OraclePayload
    /\ cls.ret.user = cls.user

\* C23: the late-bind is write-once: as constructed the registry has exactly
\* one empty handler slot, llm_response; no method runs before the slot is
\* filled, it is filled by one write whether or not an oracle is available,
\* and once composed no step changes a handler or a description.
LateBindWriteOnce ==
    /\ [](registry.pc = "constructed" =>
             /\ {t \in InstanceTypes : registry.handler[t] = "None"} = {"llm_response"}
             /\ NoCall)
    /\ [](~NoCall =>
             /\ registry.pc = "composed"
             /\ \A t \in InstanceTypes : registry.handler[t] # "None"
             /\ registry.handler["llm_response"] = IF gemini_model THEN "agent" ELSE "dummy"
             /\ \A t \in InstanceTypes :
                    registry.writes[t] = IF t = "llm_response" THEN 1 ELSE 0)
    /\ [][registry.pc = "composed" => registry' = registry]_vars

\* without an oracle the slot holds the fallback handler, written once, and
\* a route_task call has run to its end on that registry
LateBindWitness ==
    /\ ~gemini_model
    /\ registry.pc = "composed"
    /\ registry.handler["llm_response"] = "dummy"
    /\ registry.writes["llm_response"] = 1
    /\ route.pc = "done"
    /\ route.agent_type = "llm_response"

\* C24: there are no retries: in a handle_task call every sub-task's handler
\* is invoked at most once and decompose_task is called once at most, asking
\* its oracle once at most; in a route_task call the handler is invoked at
\* most once and the oracle is consulted at most once, whatever fails.
NoRetries ==
    /\ [](\A k1, k2 \in 1..Len(calls) : calls[k1].idx = calls[k2].idx => k1 = k2)
    /\ [](route.pc # "idle" => Len(route.handled) <= 1 /\ route.consulted <= 1)
    /\ [][/\ dec.pc = "oracle" => dec'.pc \in {"oracle", "done"}
          /\ dec.pc = "done" => dec'.pc = "done"
          /\ pc \notin {"idle", "start"} => pc' # "start"]_vars

\* the decomposition failed, the handler of the task raised, and handle_task
\* returned with that one handler call made
NoRetriesWitness ==
    /\ pc = "returned"
    /\ dec.pc = "done"
    /\ dec.reply.kind = "raise"
    /\ Len(calls) = 1
    /\ Len(results) = 1
    /\ results[1].kind = "failed"

\* C25: chaining injection is copy-on-write: at every moment of handle_task
\* the sub-tasks that decomposition produced have the payloads they were
\* produced with, and a sub-task dispatched with the chaining key does not
\* share its payload with its template.
InjectionIsCopyOnWrite ==
    /\ sub_tasks = decomposition
    /\ \A k \in 1..Len(calls) :
           calls[k].injected =>
               sub_tasks[calls[k].idx].payload # calls[k].sub_task.payload

\* the chat_postMessage calls of the event that posted their message
Delivered == {k \in 1..Len(slack.posts) : slack.posts[k].delivered}

\* C26: for every message event handle_message_event delivers at most one
\* user-facing response: the fallback message is posted only when the normal
\* response was not sent, never in addition to it, whether classify_task,
\* route_task or the post itself failed.
AtMostOneResponse ==
    slack.pc # "idle" =>
        /\ Cardinality(Delivered) <= 1
        /\ \A k \in 1..Len(slack.posts) :
               slack.posts[k].kind = "fallback" =>
                   /\ k = Len(slack.posts)
                   /\ \A j \in 1..(k - 1) :
                          slack.posts[j].kind = "response" /\ ~slack.posts[j].delivered
        /\ Cardinality({k \in 1..Len(slack.posts) : slack.posts[k].kind = "response"}) <= 1

\* the post of the response raised and the fallback message was delivered
AtMostOneResponseWitness ==
    /\ slack.pc = "done"
    /\ slack.result = "report"
    /\ Len(slack.posts) = 2
    /\ slack.posts[1] = [kind |-> "response", delivered |-> FALSE]
    /\ slack.posts[2] = [kind |-> "fallback", delivered |-> TRUE]

\* the request does not pass verification: its timestamp is absent, garbled
\* or stale, or its signature is absent or wrong
FailsVerification(req) == req.timestamp # "fresh" \/ req.signature # "match"

\* C27: an event is processed only after signature and timestamp were
\* verified: for a request that fails verification no event handler runs,
\* no task is classified or routed, and the endpoint returns a body.
OnlyVerifiedEventsProcessed ==
    (slack.pc = "done" /\ FailsVerification(slack.req))
    => /\ slack.result.handlers = <<>>
       /\ slack.result.body = "error"
       /\ cls = Idle
       /\ route = Idle

\* a message event of a user arrived with a stale timestamp under a matching
\* signature and was answered with the error body, unhandled
OnlyVerifiedWitness ==
    /\ slack.pc = "done"
    /\ slack.req.timestamp = "stale"
    /\ slack.req.signature = "match"
    /\ slack.req.body = "message"
    /\ slack.req.user = "U1"
    /\ slack.result = [body |-> "error", handlers |-> <<>>]

\* the sub-task's payload is a mapping whose 'input' is absent or falsy
Independent(st) ==
    st.payload.kind = "mapping" /\ st.payload.input \in {NoKey, FalsyInput}
\* the decomposition is one that line 229 sends to the sequential loop: some
\* sub-task after the first carries a truthy 'input' and all between the
\* first and it are independent, or there is one sub-task at most
SequentialCase(d) ==
    \/ Len(d) <= 1
    \/ \E i \in 2..Len(d) :
           /\ d[i].payload = Payload("mapping", TruthyInput)
           /\ \A j \in 2..(i - 1) : Independent(d[j])
\* the decomposition is one that line 229 sends to gather
ConcurrentCase(d) == Len(d) > 1 /\ \A i \in 2..Len(d) : Independent(d[i])

\* C28: in SEQUENTIAL mode at most one handler is in flight: handlers are
\* invoked in increasing index order, and the handler of a sub-task is
\* invoked only when every sub-task before it has its Result recorded, be it
\* returned, raised or rejected as unregistered.
SequentialOneInFlight ==
    (mode = "SEQUENTIAL" \/ SequentialCase(decomposition)) =>
        /\ \A k \in 1..Len(calls) : calls[k].idx <= Len(results) + 1
        /\ \A k1, k2 \in 1..Len(calls) : k1 < k2 => calls[k1].idx < calls[k2].idx
        /\ Cardinality({k \in 1..Len(calls) : calls[k].idx > Len(results)}) <= 1

\* the third handler is in flight, the first returned and the second raised
SequentialOneInFlightWitness ==
    /\ mode = "SEQUENTIAL"
    /\ pc = "await"
    /\ N = 3
    /\ Len(calls) = 3
    /\ Len(results) = 2
    /\ results[1].kind = "ok"
    /\ results[2].kind = "failed"
    /\ calls[3].idx = 3

ReturnedErrorKeepsChain ==
    (mode = "SEQUENTIAL" /\ Terminated) =>
        \A i \in 1..Len(results) :
            (i < N /\ results[i].kind = "error" /\ decomposition[i + 1].type \in agents)
            => /\ \E k \in 1..Len(calls) :
                      /\ calls[k].idx = i + 1
                      /\ calls[k].injected
                      /\ calls[k].sub_task.payload.input = results[i]
               /\ ret.form = "composite"

\* C31: calls on one Orchestrator are isolated: when two handle_task calls,
\* or two route_task calls, interleave at their awaits, what each returns
\* is what it returns alone on the same decomposition (task) with the same
\* handler (and oracle) outcomes
InterleavedCallsIsolated ==
    /\ peer.kind = "handle_task" =>
           /\ pc \in {"returned", "raised"} =>
                  ret = AloneReturn(decomposition, peer.mine)
           /\ peer.saved.pc \in {"returned", "raised"} =>
                  peer.saved.ret = AloneReturn(peer.saved.decomposition, peer.plan)
    /\ peer.kind = "route_task" =>
           /\ route.pc = "done" =>
                  route.ret = AloneRouteReturn(route.task, gemini_model,
                                               route.reply, route.outcome)
           /\ peer.saved.pc = "done" =>
                  peer.saved.ret =
                      AloneRouteReturn(peer.saved.task, gemini_model,
                                       peer.saved.reply, peer.saved.outcome)
\* both handle_task calls are over, each has called a handler, and each was
\* suspended in an await while the other ran
InterleavedCallsWitness ==
    /\ peer.kind = "handle_task"
    /\ peer.interleaved
    /\ pc = "returned"
    /\ peer.saved.pc = "returned"
    /\ Len(calls) >= 1
    /\ Len(peer.saved.calls) >= 1
    /\ Len(results) = 2
    /\ ret = AloneReturn(decomposition, peer.mine)
    /\ peer.saved.ret = AloneReturn(peer.saved.decomposition, peer.plan)

====
